---------------------------- MODULE Spec2Model ----------------------------
(***************************************************************************)
(* A model of main.py of the Domain-info application: the domain           *)
(* validator, the field normalizers, the WHOIS and DNS fetchers and the    *)
(* fetch_data handler of the user interface.                               *)
(*                                                                         *)
(* Python values are pairs <<type name, payload>>.  A str whose characters *)
(* the code inspects (the domain, a WHOIS status) is a sequence of         *)
(* one-character strings; a str the code only passes on or builds with an  *)
(* f-string (a message, a DNS text) is a TLA+ string.  A raised exception  *)
(* is <<"raise", [exc |-> class, msg |-> str]>>.  A character is a         *)
(* one-character string; TLA+ strings hold the code points up to U+00FF.   *)
(*                                                                         *)
(* main.py as it stands does not compile: line 146 assigns to an attribute *)
(* with := , a SyntaxError.  Spec is the program as run: loading it stops  *)
(* there and build_ui never runs.  The other specifications take one unit  *)
(* of the file by itself: SpecHandler is fetch_data on the controls that   *)
(* lines 72-78 build, and SpecValidate, SpecNormalize, SpecWhois,          *)
(* SpecDnsRecord and SpecDns are calls of the module-level functions.      *)
(***************************************************************************)
EXTENDS Integers, Sequences, FiniteSets, TLC

VARIABLES
    \* ---- build_ui: the controls and the position of fetch_data ----
    domain_input,       \* domain_input.value
    status_bar,         \* status_bar.value
    loading_indicator,  \* loading_indicator.visible
    whois_content,      \* whois_content.controls
    dns_content,        \* dns_content.controls
    pc,                 \* where the fetch_data handler stands
    domain,             \* fetch_data's local: the stripped input
    exc,                \* the exception caught at line 116
    net,                \* resolver calls made by the current invocation
    inv,                \* the current/last invocation: raw input, WHOIS outcome
    memo,               \* one earlier finished invocation and what it showed
    \* ---- a single call of one of the module-level functions ----
    fn,                 \* the function called
    arg,                \* its argument
    ret,                \* its result, or Pending
    \* ---- fetch_dns_records: the loop over record_types ----
    idx,                \* index of the next record type
    records,            \* the dict under construction
    outcomes            \* what the resolver did for each type queried so far

vars == <<domain_input, status_bar, loading_indicator, whois_content,
          dns_content, pc, domain, exc, net, inv, memo,
          fn, arg, ret, idx, records, outcomes>>

uiVars == <<domain_input, status_bar, loading_indicator, whois_content,
            dns_content, pc, domain, exc, net, inv, memo>>
callVars == <<fn, arg, ret>>
loopVars == <<idx, records, outcomes>>

----------------------------------------------------------------------------
(* Bounds of the model *)

\* longest string of the exhaustive inputs of validate_domain
MaxLen == 7
\* most whitespace typed on either side of a domain in the input field
MaxPad == 1
\* longest status string given to clean_status
MaxStrLen == 3
\* longest list given to format_date and clean_status
MaxListLen == 2
\* most records in one answer of the DNS resolver
MaxAnswers == 3

(* Constants of the program *)

\* {1,63} in domain_regex
MaxLabelLen == 63
\* {2,} in domain_regex
MinTldLen == 2

----------------------------------------------------------------------------
(* Python values *)

PyNone == <<"None", "None">>
PyStr(s) == <<"str", s>>
PyInt(n) == <<"int", n>>
PyBool(b) == <<"bool", b>>
PyList(s) == <<"list", s>>
PyTuple(s) == <<"tuple", s>>
\* a dict is its items, <<key, value>> pairs in insertion order
PyDict(items) == <<"dict", items>>
PyDatetime(y, m, d) == <<"datetime", <<y, m, d>>>>
Raise(e, m) == <<"raise", [exc |-> e, msg |-> m]>>
Pending == <<"pending", "pending">>

\* the type and the payload of a value
Tag(x) == x[1]
Val(x) == x[2]

IsRaise(x) == Tag(x) = "raise"

\* isinstance(x, (list, tuple))
IsListOrTuple(x) == Tag(x) \in {"list", "tuple"}

\* bool(x): None, False, 0 and the empty str, list, tuple and dict are
\* false; a datetime is true
Truthy(x) ==
    CASE Tag(x) = "None" -> FALSE
      [] Tag(x) = "bool" -> Val(x)
      [] Tag(x) = "int" -> Val(x) # 0
      [] Tag(x) \in {"str", "list", "tuple"} -> Len(Val(x)) > 0
      [] Tag(x) = "dict" -> Len(Val(x)) > 0
      [] OTHER -> TRUE

\* the keys of a dict's items, in insertion order (iteration over a dict)
keys(items) == [i \in 1..Len(items) |-> items[i][1]]

\* d[k] for a key the dict has
getitem(items, k) ==
    items[CHOOSE i \in 1..Len(items) : items[i][1] = k][2]

\* d[k] = v: a key the dict has keeps its place, a new key goes last
setitem(items, k, v) ==
    IF \E i \in 1..Len(items) : items[i][1] = k
    THEN [i \in 1..Len(items) |->
             IF items[i][1] = k THEN <<k, v>> ELSE items[i]]
    ELSE Append(items, <<k, v>>)

\* type(x).__name__ as Python's error messages give it
TypeName(x) ==
    CASE Tag(x) = "None" -> "NoneType"
      [] Tag(x) = "datetime" -> "datetime.datetime"
      [] OTHER -> Tag(x)

Letters == {"a","b","c","d","e","f","g","h","i","j","k","l","m",
            "n","o","p","q","r","s","t","u","v","w","x","y","z",
            "A","B","C","D","E","F","G","H","I","J","K","L","M",
            "N","O","P","Q","R","S","T","U","V","W","X","Y","Z"}
Digits == {"0","1","2","3","4","5","6","7","8","9"}
\* the whitespace of str.strip() and str.split() (str.isspace) among the
\* code points up to U+00FF: U+0009-U+000D, U+001C-U+001F, U+0020, U+0085
\* and U+00A0.  The Unicode spaces above U+00FF (U+1680, U+2000-U+200A,
\* U+2028, U+2029, U+202F, U+205F, U+3000) cannot be written in a string
\* of the model.
VT == ""
FS == ""
GS == ""
RS == ""
US == ""
NEL == ""
NBSP == " "
Whitespace == {" ", "\t", "\n", "\r", "\f", VT, FS, GS, RS, US, NEL, NBSP}

\* all sequences over S of length at most n
SeqsUpTo(S, n) == UNION {[1..k -> S] : k \in 0..n}

RECURSIVE Repeat(_, _)
Repeat(c, n) == IF n = 0 THEN <<>> ELSE <<c>> \o Repeat(c, n - 1)

----------------------------------------------------------------------------
(* validate_domain, lines 11-13 *)

\* [a-zA-Z0-9\-]
LabelChar(c) == c \in Letters \cup Digits \cup {"-"}

\* [a-zA-Z]{2,}$ at position i: $ matches at the end of the string and
\* before a newline that ends it
TailMatches(s, i) ==
    \E e \in {Len(s)} \cup (IF Len(s) >= 1 /\ s[Len(s)] = "\n"
                             THEN {Len(s) - 1} ELSE {}) :
        /\ e - i + 1 >= MinTldLen
        /\ \A j \in i..e : s[j] \in Letters

\* ([a-zA-Z0-9\-]{1,63}(?<!\-)\.)+[a-zA-Z]{2,}$ at position i, n groups
\* matched so far
RECURSIVE MatchFrom(_, _, _)
MatchFrom(s, i, n) ==
    \/ n >= 1 /\ TailMatches(s, i)
    \/ \E k \in 1..MaxLabelLen :
        /\ i + k <= Len(s)
        /\ \A j \in i..(i + k - 1) : LabelChar(s[j])
        /\ s[i + k - 1] # "-"
        /\ s[i + k] = "."
        /\ MatchFrom(s, i + k + 1, n + 1)

\* bool(re.match(domain_regex, domain)): the lookahead (?!\-) stands once,
\* at the start of the string, outside the repeated group
validate_domain(s) ==
    /\ (Len(s) = 0 \/ s[1] # "-")
    /\ MatchFrom(s, 1, 0)

----------------------------------------------------------------------------
(* str.strip() and str.split() *)

RECURSIVE LStrip(_)
LStrip(s) == IF s # <<>> /\ Head(s) \in Whitespace THEN LStrip(Tail(s)) ELSE s

RECURSIVE RStrip(_)
RStrip(s) ==
    IF s # <<>> /\ s[Len(s)] \in Whitespace
    THEN RStrip(SubSeq(s, 1, Len(s) - 1)) ELSE s

Strip(s) == RStrip(LStrip(s))

\* s.split(): the maximal runs of non-whitespace, in order
RECURSIVE SplitFrom(_, _)
SplitFrom(s, cur) ==
    IF s = <<>> THEN (IF cur = <<>> THEN <<>> ELSE <<cur>>)
    ELSE IF Head(s) \in Whitespace
         THEN (IF cur = <<>> THEN <<>> ELSE <<cur>>) \o SplitFrom(Tail(s), <<>>)
         ELSE SplitFrom(Tail(s), Append(cur, Head(s)))

Split(s) == SplitFrom(s, <<>>)

----------------------------------------------------------------------------
(* format_date, lines 15-20 *)

MonthAbbr == << <<"J","a","n">>, <<"F","e","b">>, <<"M","a","r">>,
                <<"A","p","r">>, <<"M","a","y">>, <<"J","u","n">>,
                <<"J","u","l">>, <<"A","u","g">>, <<"S","e","p">>,
                <<"O","c","t">>, <<"N","o","v">>, <<"D","e","c">> >>

DigitChar(n) == <<"0","1","2","3","4","5","6","7","8","9">>[n + 1]

\* the decimal digits of n, without padding
RECURSIVE Decimal(_)
Decimal(n) ==
    IF n < 10 THEN <<DigitChar(n)>>
    ELSE Decimal(n \div 10) \o <<DigitChar(n % 10)>>

\* d.strftime("%b %d, %Y") in the C locale: %d is two digits, %Y is the
\* year unpadded (glibc)
strftime(d) ==
    LET y == Val(d)[1]
        m == Val(d)[2]
        dd == Val(d)[3]
    IN  MonthAbbr[m] \o <<" ">>
        \o <<DigitChar(dd \div 10), DigitChar(dd % 10)>> \o <<",", " ">>
        \o Decimal(y)

\* [d.strftime(...) for d in date if isinstance(d, datetime)]
RECURSIVE FormatEach(_)
FormatEach(ds) ==
    IF ds = <<>> THEN <<>>
    ELSE (IF Tag(Head(ds)) = "datetime" THEN <<PyStr(strftime(Head(ds)))>> ELSE <<>>)
         \o FormatEach(Tail(ds))

format_date(date) ==
    IF IsListOrTuple(date) THEN PyList(FormatEach(Val(date)))
    ELSE IF Tag(date) = "datetime" THEN PyStr(strftime(date))
    ELSE PyNone

----------------------------------------------------------------------------
(* clean_status, lines 22-27 *)

IndexError == Raise("IndexError", "list index out of range")

\* s.split()[0]: indexing the empty list raises IndexError
FirstToken(s) ==
    LET toks == Split(s)
    IN  IF toks = <<>> THEN IndexError ELSE PyStr(toks[1])

\* [s.split()[0] for s in status if isinstance(s, str)]: the first element
\* that raises ends the comprehension
RECURSIVE CleanEach(_)
CleanEach(ss) ==
    IF ss = <<>> THEN PyList(<<>>)
    ELSE IF Tag(Head(ss)) # "str" THEN CleanEach(Tail(ss))
    ELSE LET first == FirstToken(Val(Head(ss)))
             rest == CleanEach(Tail(ss))
         IN  IF IsRaise(first) THEN first
             ELSE IF IsRaise(rest) THEN rest
             ELSE PyList(<<first>> \o Val(rest))

clean_status(status) ==
    IF IsListOrTuple(status) THEN CleanEach(Val(status))
    ELSE IF Tag(status) = "str" THEN FirstToken(Val(status))
    ELSE PyNone

----------------------------------------------------------------------------
(* handle_error, lines 29-30 *)

handle_error(message) == PyDict(<<<<"error", PyStr(message)>>>>)

----------------------------------------------------------------------------
(* fetch_whois_info, lines 32-45 *)

\* list(x): the elements of a list or tuple, the characters of a str, the
\* keys of a dict in insertion order; TypeError for any other value
ToList(x) ==
    IF IsListOrTuple(x) THEN PyList(Val(x))
    ELSE IF Tag(x) = "str"
         THEN PyList([i \in 1..Len(Val(x)) |-> PyStr(<<Val(x)[i]>>)])
    ELSE IF Tag(x) = "dict"
         THEN PyList([i \in 1..Len(Val(x)) |-> PyStr(keys(Val(x))[i])])
    ELSE Raise("TypeError", "'" \o TypeName(x) \o "' object is not iterable")

\* The body of the try block, lines 34-41, on the outcome o of
\* whois.whois(domain): the dict returned, or the exception raised.  The
\* dict's values are evaluated in the order written.
WhoisTry(o) ==
    IF o.kind # "ok" THEN Raise(o.kind, o.msg)
    ELSE LET w == o.w
             created == format_date(w.creation_date)
             expiry == format_date(w.expiration_date)
             status == clean_status(w.status)
             nameservers == IF Truthy(w.name_servers)
                            THEN ToList(w.name_servers) ELSE PyNone
         IN  IF IsRaise(created) THEN created
             ELSE IF IsRaise(expiry) THEN expiry
             ELSE IF IsRaise(status) THEN status
             ELSE IF IsRaise(nameservers) THEN nameservers
             ELSE PyDict(<<<<"Registrar", w.registrar>>,
                           <<"Created Date", created>>,
                           <<"Expiry Date", expiry>>,
                           <<"Status", status>>,
                           <<"Nameservers", nameservers>>>>)

\* lines 42-43 without the clause of lines 44-45
fetch_whois_info_no_catch_all(o) ==
    LET r == WhoisTry(o)
    IN  IF IsRaise(r) /\ Val(r).exc = "WhoisException"
        THEN handle_error("WHOIS lookup failed: " \o Val(r).msg)
        ELSE r

\* The except clauses, lines 42-45.  Every exception class of the model
\* derives from Exception.
fetch_whois_info(o) ==
    LET r == WhoisTry(o)
    IN  IF ~IsRaise(r) THEN r
        ELSE IF Val(r).exc = "WhoisException"
             THEN handle_error("WHOIS lookup failed: " \o Val(r).msg)
        ELSE handle_error("Unexpected error fetching WHOIS: " \o Val(r).msg)

----------------------------------------------------------------------------
(* fetch_dns_record, lines 47-60 *)

\* rdata.to_text(): the text of resolver record r
to_text(r) == "rdata" \o ToString(r)

\* [rdata.to_text() for rdata in answers]
ToTexts(answers) == [i \in 1..Len(answers) |-> PyStr(to_text(answers[i]))]

\* fetch_dns_record without the clause of lines 57-58
fetch_dns_record_no_timeout_clause(record_type, dom, o) ==
    CASE o.kind = "answer" -> PyList(ToTexts(o.answers))
      [] o.kind = "NoAnswer" ->
            handle_error("No " \o record_type \o " records found.")
      [] o.kind = "NXDOMAIN" ->
            handle_error("Domain '" \o dom \o "' does not exist.")
      [] OTHER ->
            handle_error("Error retrieving " \o record_type \o " records: "
                         \o o.msg)

\* o is the outcome of resolver.resolve(domain, record_type)
fetch_dns_record(record_type, dom, o) ==
    CASE o.kind = "answer" -> PyList(ToTexts(o.answers))
      [] o.kind = "NoAnswer" ->
            handle_error("No " \o record_type \o " records found.")
      [] o.kind = "NXDOMAIN" ->
            handle_error("Domain '" \o dom \o "' does not exist.")
      [] o.kind = "Timeout" ->
            handle_error("DNS query timed out. Check your network.")
      [] OTHER ->
            handle_error("Error retrieving " \o record_type \o " records: "
                         \o o.msg)

----------------------------------------------------------------------------
(* fetch_dns_records, lines 62-68 *)

record_types == <<"A", "NS", "CNAME", "MX", "TXT">>

\* line 67 storing only the results that are not error records
StoreResult_skip_errors(recs, record_type, result) ==
    IF Tag(result) = "dict" THEN recs
    ELSE setitem(recs, record_type, result)

\* line 67: records[record_type] = result if not isinstance(result, dict)
\* else result['error']
StoreResult(recs, record_type, result) ==
    setitem(recs, record_type,
            IF Tag(result) # "dict" THEN result
            ELSE getitem(Val(result), "error"))

\* line 65 with a break after an error record
NextIndex_break_on_error(i, result) ==
    IF Tag(result) = "dict" THEN Len(record_types) + 1 ELSE i + 1

\* line 65: the for loop goes on to the next type whatever the result was
NextIndex(i, result) == i + 1

----------------------------------------------------------------------------
(* Inputs *)

\* the strings validate_domain is given: every string over a letter, a
\* digit, the hyphen and the dot up to MaxLen, labels around the limit of
\* 63 characters, and strings ending in newlines
ValidateAlphabet == {"a", "1", "-", "."}
LongLabelInputs ==
    {Repeat("a", n) \o <<".", "a", "b">> :
        n \in (MaxLabelLen - 1)..(MaxLabelLen + 1)}
    \cup {<<"a", ".">> \o Repeat("1", n) \o <<".", "a", "b">> :
        n \in (MaxLabelLen - 1)..(MaxLabelLen + 1)}
NewlineInputs ==
    {<<"a", ".", "a", "b", "\n">>, <<"a", ".", "a", "b", "\n", "\n">>,
     <<"a", ".", "a", "\n">>, <<" ">>, <<"a", ".", "a", "b", " ">>}
ValidateInputs ==
    SeqsUpTo(ValidateAlphabet, MaxLen) \cup LongLabelInputs \cup NewlineInputs

\* the values the normalizers are given
OkExtra == <<"o", "k", " ", "e", "x", "t", "r", "a">>
PendingNow == <<"p", "e", "n", "d", "i", "n", "g", " ", "n", "o", "w">>
Dates == {PyDatetime(2024, 1, 5), PyDatetime(1999, 12, 31),
          PyDatetime(999, 2, 28)}
StatusStrings == SeqsUpTo({"o", "k", " "}, MaxStrLen)
Scalars ==
    {PyNone, PyInt(7), PyBool(FALSE), PyDict(<<>>), PyStr(<<VT>>),
     PyStr(<<FS, "o", "k", NBSP, "k">>)}
    \cup Dates \cup {PyStr(x) : x \in StatusStrings}
ListElements ==
    {PyNone, PyInt(7), PyStr(<<>>), PyStr(<<" ">>), PyStr(OkExtra),
     PyStr(PendingNow)} \cup Dates
NormalizerInputs ==
    Scalars
    \cup {PyList(x) : x \in SeqsUpTo(ListElements, MaxListLen)}
    \cup {PyTuple(x) : x \in SeqsUpTo(ListElements, MaxListLen)}

\* what whois.whois(domain) does: a record whose fields have the shapes
\* registrars send, or an exception
Ns1 == <<"n", "s", "1">>
Ns2 == <<"n", "s", "2">>
NoRecord == [registrar |-> PyNone, creation_date |-> PyNone,
             expiration_date |-> PyNone, status |-> PyNone,
             name_servers |-> PyNone]
WhoisRecords ==
    [registrar : {PyNone, PyStr("Example Registrar")},
     creation_date : {PyNone, PyDatetime(1999, 12, 31),
                      PyList(<<PyDatetime(1999, 12, 31),
                               PyDatetime(2024, 1, 5)>>),
                      PyStr(<<"1", "9", "9", "9">>)},
     expiration_date : {PyNone, PyDatetime(2024, 1, 5),
                        PyList(<<PyDatetime(2024, 1, 5), PyStr(<<"x">>)>>)},
     status : {PyNone, PyStr(OkExtra), PyStr(<<>>),
               PyList(<<PyStr(OkExtra), PyStr(PendingNow)>>),
               PyList(<<PyStr(OkExtra), PyStr(<<" ">>)>>)},
     name_servers : {PyNone, PyList(<<>>), PyList(<<PyStr(Ns1), PyStr(Ns2)>>),
                     PyStr(Ns1), PyInt(7), PyDatetime(2024, 1, 5),
                     PyDict(<<>>),
                     PyDict(<<<<"a", PyInt(2)>>, <<"b", PyInt(1)>>>>),
                     PyDict(<<<<"b", PyInt(1)>>, <<"a", PyInt(2)>>>>)}]
WhoisFailures ==
    {[kind |-> "WhoisException", w |-> NoRecord, msg |-> "No match for domain"],
     [kind |-> "WhoisException", w |-> NoRecord, msg |-> "rate limited"],
     [kind |-> "ConnectionResetError", w |-> NoRecord,
      msg |-> "Connection reset by peer"],
     [kind |-> "TimeoutError", w |-> NoRecord, msg |-> "timed out"]}
WhoisOutcomes ==
    {[kind |-> "ok", w |-> w, msg |-> ""] : w \in WhoisRecords}
    \cup WhoisFailures

\* what resolver.resolve(domain, record_type) does: a non-empty answer, in
\* the resolver's order, or an exception
Rdatas == {1, 2, 3}
DnsDomains == {"example.com", "nx.example"}
DnsFailures ==
    {[kind |-> "NoAnswer", answers |-> <<>>, msg |-> ""],
     [kind |-> "NXDOMAIN", answers |-> <<>>, msg |-> ""],
     [kind |-> "Timeout", answers |-> <<>>, msg |-> ""],
     [kind |-> "NoNameservers", answers |-> <<>>,
      msg |-> "All nameservers failed to answer the query"]}
DnsOutcomes ==
    {[kind |-> "answer", answers |-> a, msg |-> ""] :
        a \in SeqsUpTo(Rdatas, MaxAnswers) \ {<<>>}}
    \cup DnsFailures
\* the outcomes drawn for each type inside fetch_dns_records
LoopOutcomes ==
    {[kind |-> "answer", answers |-> a, msg |-> ""] : a \in {<<1>>, <<2, 1>>}}
    \cup DnsFailures

\* what the user types: a domain with whitespace around it
UIDomains == {<<>>, <<"a">>, <<"a", ".", "a", "a">>,
              <<"-", "a", ".", "a", "a">>, <<VT>>, <<NEL, "a", GS>>}
UIInputs ==
    {Repeat(" ", l) \o d \o Repeat(" ", r) :
        l \in 0..MaxPad, r \in 0..MaxPad, d \in UIDomains}
UIWhoisOutcomes ==
    {[kind |-> "ok", w |-> [NoRecord EXCEPT !.status = PyStr(OkExtra)],
      msg |-> ""],
     [kind |-> "WhoisException", w |-> NoRecord, msg |-> "No match for domain"],
     [kind |-> "TimeoutError", w |-> NoRecord, msg |-> "timed out"]}

----------------------------------------------------------------------------
(* Calls of the module-level functions *)

NoArg == PyNone

CallIdle == fn = "none" /\ arg = NoArg /\ ret = Pending
LoopIdle == idx = 0 /\ records = <<>> /\ outcomes = <<>>

call_validate_domain ==
    /\ fn = "validate_domain" /\ Tag(ret) = "pending"
    /\ ret' = PyBool(validate_domain(Val(arg)))
    /\ UNCHANGED <<fn, arg, uiVars, loopVars>>

call_format_date ==
    /\ fn = "format_date" /\ Tag(ret) = "pending"
    /\ ret' = format_date(arg)
    /\ UNCHANGED <<fn, arg, uiVars, loopVars>>

call_clean_status ==
    /\ fn = "clean_status" /\ Tag(ret) = "pending"
    /\ ret' = clean_status(arg)
    /\ UNCHANGED <<fn, arg, uiVars, loopVars>>

\* outcomes[1] is what whois.whois(domain) does in this call
call_fetch_whois_info ==
    /\ fn = "fetch_whois_info" /\ Tag(ret) = "pending"
    /\ ret' = fetch_whois_info(outcomes[1])
    /\ UNCHANGED <<fn, arg, uiVars, loopVars>>

\* arg is <<record_type, domain>>; outcomes[1] is what the resolver does
call_fetch_dns_record ==
    /\ fn = "fetch_dns_record" /\ Tag(ret) = "pending"
    /\ ret' = fetch_dns_record(arg[1], arg[2], outcomes[1])
    /\ UNCHANGED <<fn, arg, uiVars, loopVars>>

\* fetch_dns_records, lines 65-67: one turn of the loop, the resolver
\* doing o for the type at hand
fetch_dns_records_step ==
    /\ fn = "fetch_dns_records" /\ Tag(ret) = "pending"
    /\ idx \in 1..Len(record_types)
    /\ \E o \in LoopOutcomes :
        LET record_type == record_types[idx]
            result == fetch_dns_record(record_type, Val(arg), o)
        IN  /\ records' = StoreResult(records, record_type, result)
            /\ outcomes' = Append(outcomes, o)
            /\ idx' = NextIndex(idx, result)
    /\ UNCHANGED <<fn, arg, ret, uiVars>>

\* fetch_dns_records, line 68
fetch_dns_records_return ==
    /\ fn = "fetch_dns_records" /\ Tag(ret) = "pending"
    /\ idx > Len(record_types)
    /\ ret' = PyDict(records)
    /\ UNCHANGED <<fn, arg, uiVars, loopVars>>

----------------------------------------------------------------------------
(* build_ui: fetch_data, lines 84-119 *)

NoOutcome == [kind |-> "none", w |-> NoRecord, msg |-> ""]
\* n counts the invocation: 0 before the first click, 1 from then on
NoInvocation == [input |-> <<>>, whois |-> NoOutcome, n |-> 0]
NoMemo == [inv |-> NoInvocation,
           obs |-> [status |-> "", loading |-> FALSE,
                    whois |-> <<>>, dns |-> <<>>]]

\* what the user sees
Observable ==
    [status |-> status_bar, loading |-> loading_indicator,
     whois |-> whois_content, dns |-> dns_content]

\* build_ui has not run: there are no controls and no handler
NotBuilt ==
    /\ domain_input = <<>>
    /\ status_bar = ""
    /\ loading_indicator = FALSE
    /\ whois_content = <<>>
    /\ dns_content = <<>>
    /\ domain = <<>>
    /\ exc = PyNone
    /\ net = <<>>
    /\ inv = NoInvocation
    /\ memo = NoMemo

\* a function is called by itself, without the user interface
NoUI == pc = "none" /\ NotBuilt

\* the controls as lines 72-78 build them, fetch_data not running
UIIdle ==
    /\ domain_input = <<>>
    /\ status_bar = "Ready"
    /\ loading_indicator = FALSE
    /\ whois_content = <<>>
    /\ dns_content = <<>>
    /\ pc = "idle"
    /\ domain = <<>>
    /\ exc = PyNone
    /\ net = <<>>
    /\ inv = NoInvocation
    /\ memo = NoMemo

\* python main.py: the file is compiled before any of it runs, and line
\* 146 (an assignment expression whose target is an attribute) is a
\* SyntaxError; nothing of the module is executed
load_main ==
    /\ pc = "load"
    /\ pc' = "SyntaxError"
    /\ exc' = Raise("SyntaxError",
                    "cannot use assignment expressions with attribute")
    /\ UNCHANGED <<domain_input, status_bar, loading_indicator,
                   whois_content, dns_content, domain, net, inv, memo,
                   callVars, loopVars>>

\* the user edits the text field between two clicks
type_domain ==
    /\ pc = "idle"
    /\ \E value \in UIInputs : domain_input' = value
    /\ UNCHANGED <<status_bar, loading_indicator, whois_content, dns_content,
                   pc, domain, exc, net, inv, memo, callVars, loopVars>>

\* line 85 without .strip()
StrippedInput_unstripped(value) == value

\* line 85: domain = domain_input.value.strip()
StrippedInput(value) == Strip(value)

\* await x: a value that is not awaitable raises TypeError
Await(x) ==
    IF Tag(x) = "awaitable" THEN Val(x)
    ELSE Raise("TypeError",
               "object " \o TypeName(x)
               \o " can't be used in 'await' expression")

\* A click on fetch_button or refresh_button, lines 84-92.  memo may keep
\* the invocation that has just ended and what it showed.
fetch_data ==
    /\ pc = "idle"
    /\ domain' = StrippedInput(domain_input)
    /\ net' = <<>>
    /\ exc' = PyNone
    /\ inv' = [input |-> domain_input, whois |-> NoOutcome, n |-> 1]
    /\ \/ memo' = memo
       \/ inv.n = 1 /\ memo' = [inv |-> inv, obs |-> Observable]
    /\ IF domain' = <<>>
       THEN /\ status_bar' = "Error: Invalid Domain"
            /\ pc' = "idle"
            /\ UNCHANGED loading_indicator
       ELSE /\ loading_indicator' = TRUE
            /\ status_bar' = "Fetching Data..."
            /\ pc' = "try"
    /\ UNCHANGED <<domain_input, whois_content, dns_content, callVars, loopVars>>

\* Lines 94-95 and 116-117.  fetch_whois_info is called and returns a dict;
\* awaiting a dict raises TypeError before whois_info is bound, and the
\* handler of line 116 shows it.  Lines 96-115 are never reached.
fetch_data_try ==
    /\ pc = "try"
    /\ \E o \in UIWhoisOutcomes :
        LET whois_info == Await(fetch_whois_info(o))
        IN  /\ net' = Append(net, "whois")
            /\ inv' = [inv EXCEPT !.whois = o]
            /\ IF IsRaise(whois_info)
               THEN /\ exc' = whois_info
                    /\ status_bar' = "Error: " \o Val(whois_info).msg
                    /\ pc' = "finally"
               ELSE /\ pc' = "line 96"
                    /\ UNCHANGED <<exc, status_bar>>
    /\ UNCHANGED <<domain_input, loading_indicator, whois_content,
                   dns_content, domain, memo, callVars, loopVars>>

\* lines 118-119
fetch_data_finish ==
    /\ pc = "finally"
    /\ loading_indicator' = FALSE
    /\ pc' = "idle"
    /\ UNCHANGED <<domain_input, status_bar, whois_content, dns_content,
                   domain, exc, net, inv, memo, callVars, loopVars>>

----------------------------------------------------------------------------
(* Specifications *)

\* the program as run: main.py is loaded
Init == pc = "load" /\ NotBuilt /\ CallIdle /\ LoopIdle
Next == load_main
Spec == Init /\ [][Next]_vars

\* fetch_data by itself, on the controls of lines 72-78: any sequence of
\* edits and clicks
InitHandler == UIIdle /\ CallIdle /\ LoopIdle
NextHandler ==
    type_domain \/ fetch_data \/ fetch_data_try \/ fetch_data_finish
SpecHandler == InitHandler /\ [][NextHandler]_vars

\* one call of validate_domain
InitValidate ==
    /\ NoUI /\ LoopIdle
    /\ fn = "validate_domain" /\ ret = Pending
    /\ arg \in {PyStr(x) : x \in ValidateInputs}
SpecValidate == InitValidate /\ [][call_validate_domain]_vars

\* one call of format_date or of clean_status
InitNormalize ==
    /\ NoUI /\ LoopIdle
    /\ fn \in {"format_date", "clean_status"} /\ ret = Pending
    /\ arg \in NormalizerInputs
NextNormalize == call_format_date \/ call_clean_status
SpecNormalize == InitNormalize /\ [][NextNormalize]_vars

\* one call of fetch_whois_info
InitWhois ==
    /\ NoUI
    /\ idx = 0 /\ records = <<>>
    /\ outcomes \in {<<o>> : o \in WhoisOutcomes}
    /\ fn = "fetch_whois_info" /\ ret = Pending
    /\ arg = PyStr("example.com")
SpecWhois == InitWhois /\ [][call_fetch_whois_info]_vars

\* one call of fetch_dns_record
InitDnsRecord ==
    /\ NoUI
    /\ idx = 0 /\ records = <<>>
    /\ outcomes \in {<<o>> : o \in DnsOutcomes}
    /\ fn = "fetch_dns_record" /\ ret = Pending
    /\ arg \in {<<record_types[i], d>> : i \in 1..Len(record_types),
                                          d \in DnsDomains}
SpecDnsRecord == InitDnsRecord /\ [][call_fetch_dns_record]_vars

\* one call of fetch_dns_records
InitDns ==
    /\ NoUI
    /\ idx = 1 /\ records = <<>> /\ outcomes = <<>>
    /\ fn = "fetch_dns_records" /\ ret = Pending
    /\ arg \in {PyStr(d) : d \in DnsDomains}
NextDns == fetch_dns_records_step \/ fetch_dns_records_return
SpecDns == InitDns /\ [][NextDns]_vars

----------------------------------------------------------------------------
(* fetch_data: C1, C2, C5, C10 (under SpecHandler) *)

\* every character of s is whitespace (the empty string included)
IsBlank(s) == \A i \in 1..Len(s) : s[i] \in Whitespace

\* C1: a lookup whose input validate_domain rejects ends Rejected with the
\* "Invalid Domain" signal, and no WHOIS or DNS fetch is made for it: every
\* resolver call is preceded by a successful validation of the same input.
C1_FetchOnlyAfterValidation ==
    /\ net # <<>> => validate_domain(domain)
    /\ (pc = "idle" /\ inv.n = 1 /\ ~validate_domain(domain)) =>
            /\ status_bar = "Error: Invalid Domain"
            /\ net = <<>>

\* C2: a lookup whose input passes the gate ends Assembled: the handler
\* finishes with the result shown ("Ready") after all six sub-operations
\* (1 WHOIS + 5 DNS) were run, whatever each of them returned.
C2_AssembledAfterSixFetches ==
    (pc = "idle" /\ inv.n = 1 /\ validate_domain(domain)) =>
        /\ status_bar = "Ready"
        /\ Len(net) = 1 + Len(record_types)

\* C5: an empty or whitespace-only input is answered with the invalid-domain
\* error, with no call to the WHOIS resolver, none to the DNS resolver, and
\* without entering the fetching state (the loading indicator stays hidden).
C5_BlankInputRejected ==
    (inv.n = 1 /\ IsBlank(inv.input)) =>
        /\ pc = "idle"
        /\ status_bar = "Error: Invalid Domain"
        /\ net = <<>>
        /\ ~loading_indicator

\* witness of C5: a whitespace-only input was rejected after an earlier
\* invocation had fetched
C5_Witness ==
    /\ inv.n = 1 /\ inv.input # <<>> /\ IsBlank(inv.input)
    /\ memo.inv.n = 1 /\ memo.inv.whois.kind # "none"
    /\ status_bar = "Error: Invalid Domain"

\* C10: invocations are independent: whatever came before, a lookup of the
\* same valid domain (the input stripped) with the same resolver outcomes as an
\* earlier lookup ends with an equal result, and that result is the
\* invocation's own: the registration outcome in the WHOIS pane and one
\* entry for each of the five DNS record types in the DNS pane.
C10_InvocationsIndependent ==
    (/\ pc = "idle" /\ inv.n = 1 /\ memo.inv.n = 1
     /\ validate_domain(domain) /\ inv.whois.kind # "none"
     /\ Strip(memo.inv.input) = Strip(inv.input)
     /\ memo.inv.whois = inv.whois) =>
        /\ memo.obs = Observable
        /\ Len(whois_content) > 0
        /\ Len(dns_content) = Len(record_types)

----------------------------------------------------------------------------
(* validate_domain: C6 (under SpecValidate) *)

\* the labels of s: the pieces between its dots
RECURSIVE LabelsFrom(_, _)
LabelsFrom(s, cur) ==
    IF s = <<>> THEN <<cur>>
    ELSE IF Head(s) = "." THEN <<cur>> \o LabelsFrom(Tail(s), <<>>)
    ELSE LabelsFrom(Tail(s), Append(cur, Head(s)))

\* a label as the specification has it: 1-63 letters, digits or hyphens,
\* no hyphen first, none last
GoodLabel(l) ==
    /\ Len(l) \in 1..63
    /\ \A i \in 1..Len(l) : l[i] \in Letters \cup Digits \cup {"-"}
    /\ l[1] # "-"
    /\ l[Len(l)] # "-"

GoodFinalLabel(l) == Len(l) >= 2 /\ \A i \in 1..Len(l) : l[i] \in Letters

DomainGrammar(s) ==
    LET ls == LabelsFrom(s, <<>>)
    IN  /\ Len(ls) >= 2
        /\ \A i \in 1..(Len(ls) - 1) : GoodLabel(ls[i])
        /\ GoodFinalLabel(ls[Len(ls)])

OverDomainAlphabet(s) ==
    \A i \in 1..Len(s) : s[i] \in Letters \cup Digits \cup {"-", "."}

\* C6: over letters, digits, hyphens and dots, validate_domain returns true
\* exactly for one or more dot-separated labels, each of 1-63 letters,
\* digits or hyphens with no leading and no trailing hyphen, followed by a
\* final label of at least two letters.
C6_ValidatorIsTheGrammar ==
    (Tag(ret) = "bool" /\ OverDomainAlphabet(Val(arg))) =>
        (Val(ret) <=> DomainGrammar(Val(arg)))

----------------------------------------------------------------------------
(* format_date and clean_status: C7 (under SpecNormalize) *)

\* the number of elements of xs of type ty
RECURSIVE CountOf(_, _)
CountOf(xs, ty) ==
    IF xs = <<>> THEN 0
    ELSE (IF Tag(Head(xs)) = ty THEN 1 ELSE 0) + CountOf(Tail(xs), ty)

\* C7: format_date and clean_status are total: on every value each returns
\* a value and never fails; clean_status gives a string for a string, a
\* list with one token per string element for a sequence, and None
\* otherwise.
C7_NormalizersTotal ==
    Tag(ret) # "pending" =>
        /\ ~IsRaise(ret)
        /\ fn = "clean_status" =>
            CASE Tag(arg) = "str" -> Tag(ret) = "str"
              [] IsListOrTuple(arg) ->
                    /\ Tag(ret) = "list"
                    /\ Len(Val(ret)) = CountOf(Val(arg), "str")
              [] OTHER -> ret = PyNone

----------------------------------------------------------------------------
(* fetch_whois_info: C8 (under SpecWhois) *)

\* x is the error record {"error": message}
IsErrorRecord(x, message) ==
    /\ Tag(x) = "dict"
    /\ keys(Val(x)) = <<"error">>
    /\ getitem(Val(x), "error") = PyStr(message)

\* the failure of the normalization of record w, if there is one
NormalizationFailure(w) ==
    IF IsRaise(clean_status(w.status)) THEN {"list index out of range"}
    ELSE IF Tag(w.name_servers) = "int" /\ Val(w.name_servers) # 0
         THEN {"'int' object is not iterable"}
    ELSE IF Tag(w.name_servers) = "datetime"
         THEN {"'datetime.datetime' object is not iterable"}
    ELSE {}

\* C8: fetch_whois_info never lets a failure escape.  Whatever the WHOIS
\* resolver and the normalization inside do, it returns a dict: the five
\* fields of the registration record on success, the error "WHOIS lookup
\* failed: {detail}" on a WhoisException, and the error "Unexpected error
\* fetching WHOIS: {detail}" on any other failure.
C8_WhoisFailuresAreValues ==
    Tag(ret) # "pending" =>
        LET o == outcomes[1]
        IN  /\ Tag(ret) = "dict"
            /\ o.kind = "WhoisException" =>
                    IsErrorRecord(ret, "WHOIS lookup failed: " \o o.msg)
            /\ o.kind \notin {"ok", "WhoisException"} =>
                    IsErrorRecord(ret,
                        "Unexpected error fetching WHOIS: " \o o.msg)
            /\ (o.kind = "ok" /\ NormalizationFailure(o.w) = {}) =>
                    keys(Val(ret)) = <<"Registrar", "Created Date",
                                       "Expiry Date", "Status", "Nameservers">>
            /\ (o.kind = "ok" /\ NormalizationFailure(o.w) # {}) =>
                    \E detail \in NormalizationFailure(o.w) :
                        IsErrorRecord(ret,
                            "Unexpected error fetching WHOIS: " \o detail)

\* witness of C8: the resolver answered and the normalization of the
\* status failed inside fetch_whois_info, which returned the error record
C8_Witness ==
    /\ Tag(ret) = "dict"
    /\ fn = "fetch_whois_info"
    /\ outcomes[1].kind = "ok"
    /\ outcomes[1].w.status = PyStr(<<>>)
    /\ keys(Val(ret)) = <<"error">>

----------------------------------------------------------------------------
(* fetch_dns_record: C9 (under SpecDnsRecord) *)

\* C9: fetch_dns_record maps each resolver outcome to one result and never
\* raises: the four error messages for no-answer, nxdomain, timeout and any
\* other failure, and on success the texts of the records, as many as the
\* resolver returned and in its order.
C9_DnsOutcomeMapping ==
    Tag(ret) # "pending" =>
        LET record_type == arg[1]
            dom == arg[2]
            o == outcomes[1]
        IN  /\ ~IsRaise(ret)
            /\ o.kind = "NoAnswer" =>
                IsErrorRecord(ret, "No " \o record_type \o " records found.")
            /\ o.kind = "NXDOMAIN" =>
                IsErrorRecord(ret, "Domain '" \o dom \o "' does not exist.")
            /\ o.kind = "Timeout" =>
                IsErrorRecord(ret, "DNS query timed out. Check your network.")
            /\ o.kind \notin {"answer", "NoAnswer", "NXDOMAIN", "Timeout"} =>
                IsErrorRecord(ret, "Error retrieving " \o record_type
                                   \o " records: " \o o.msg)
            /\ o.kind = "answer" =>
                /\ Tag(ret) = "list"
                /\ Len(Val(ret)) = Len(o.answers)
                /\ \A i \in 1..Len(o.answers) :
                        Val(ret)[i] = PyStr(to_text(o.answers[i]))

\* witness of C9: an answer of several records, not in sorted order, was
\* returned as texts in the resolver's order
C9_Witness ==
    /\ fn = "fetch_dns_record"
    /\ Tag(ret) = "list"
    /\ outcomes[1].answers = <<3, 1, 2>>
    /\ Val(ret) = <<PyStr("rdata3"), PyStr("rdata1"), PyStr("rdata2")>>

----------------------------------------------------------------------------
(* fetch_dns_records: C3, C4 (under SpecDns) *)

\* C3: whatever the resolver does for each type, fetch_dns_records returns
\* a mapping whose keys are exactly A, NS, CNAME, MX and TXT, each mapped
\* to a sequence of strings or to one error message string.
C3_FiveKeys ==
    Tag(ret) # "pending" =>
        /\ Tag(ret) = "dict"
        /\ keys(Val(ret)) = <<"A", "NS", "CNAME", "MX", "TXT">>
        /\ \A k \in {"A", "NS", "CNAME", "MX", "TXT"} :
            LET x == getitem(Val(ret), k)
            IN  \/ Tag(x) = "str"
                \/ /\ Tag(x) = "list"
                   /\ \A i \in 1..Len(Val(x)) : Tag(Val(x)[i]) = "str"

\* witness of C3: the mapping was returned after all five fetches failed
C3_Witness ==
    /\ fn = "fetch_dns_records" /\ Tag(ret) = "dict"
    /\ Len(outcomes) = 5
    /\ \A i \in 1..5 : outcomes[i].kind # "answer"

\* the entry section 4.4 gives for resolver outcome o of type record_type
ExpectedEntry(record_type, dom, o) ==
    CASE o.kind = "answer" ->
            PyList([i \in 1..Len(o.answers) |-> PyStr(to_text(o.answers[i]))])
      [] o.kind = "NoAnswer" ->
            PyStr("No " \o record_type \o " records found.")
      [] o.kind = "NXDOMAIN" -> PyStr("Domain '" \o dom \o "' does not exist.")
      [] o.kind = "Timeout" -> PyStr("DNS query timed out. Check your network.")
      [] OTHER -> PyStr("Error retrieving " \o record_type \o " records: "
                        \o o.msg)

\* C4: the value under each record type depends on the resolver outcome for
\* that type alone: a failure is stored as a string under its key, the
\* loop goes on to the remaining types, and the other keys hold what their
\* own outcomes give.
C4_EntriesIndependent ==
    fn = "fetch_dns_records" =>
        /\ idx = Len(outcomes) + 1
        /\ keys(records) = SubSeq(record_types, 1, Len(outcomes))
        /\ \A i \in 1..Len(outcomes) :
            getitem(records, record_types[i]) =
                ExpectedEntry(record_types[i], Val(arg), outcomes[i])
        /\ Tag(ret) # "pending" => Len(outcomes) = Len(record_types)

\* witness of C4: the resolver timed out for MX only; MX holds the timeout
\* message and the other four keys hold their sequences
C4_Witness ==
    /\ fn = "fetch_dns_records" /\ Tag(ret) = "dict"
    /\ Len(outcomes) = 5
    /\ \A i \in 1..5 : (outcomes[i].kind = "Timeout") <=> (record_types[i] = "MX")
    /\ \A i \in 1..5 : record_types[i] # "MX" => outcomes[i].kind = "answer"
    /\ getitem(Val(ret), "MX")
           = PyStr("DNS query timed out. Check your network.")
    /\ \A k \in {"A", "NS", "CNAME", "TXT"} :
           Tag(getitem(Val(ret), k)) = "list"

====
